---- MODULE Spec2Model ----
(***************************************************************************)
(* trol.Property: a descriptor that projects an attribute of a holder      *)
(* object onto a Redis key, with a local cached copy kept on the holder.   *)
(*                                                                         *)
(* Python values are encoded as integers: 1..MaxVal are ordinary values,   *)
(* PyNone is Python's None, Null is the Property.null sentinel and Unset   *)
(* stands for "the mangled attribute does not exist on the holder".        *)
(* Bytes produced by the serializer are tuples <<"pickle", v>>; a missing  *)
(* Redis key (redis.get returning None) is the empty tuple.                *)
(***************************************************************************)
EXTENDS Integers, Sequences, FiniteSets, TLC

\* ---------------------------------------------------------------- bounds
MaxVal == 1

\* ------------------------------------------------------------ value space
Null == -1
PyNone == 0
Unset == -2

Values == 1..MaxVal
WriteValues == Values \cup {PyNone}

Owners == {"A", "B"}
KeyNone == "<None>"
OwnerKeys == {KeyNone, "user:42"}
Name == "score"

Flags == {"true", "false", "unset"}
OwnerFlags == {"true", "false", "absent"}

Absent == <<>>

VARIABLES
    autocommit,     \* Property.autocommit (binding flag)
    alwaysfetch,    \* Property.alwaysfetch (binding flag)
    objKey,         \* obj.key of every holder
    objAutocommit,  \* obj.autocommit of every holder, or "absent"
    objAlwaysfetch, \* obj.alwaysfetch of every holder, or "absent"
    local,          \* the mangled attribute of every holder
    redis,          \* the Redis database: key -> bytes or Absent
    lastOp,         \* the operation that ran last
    lastObj,        \* the holder it ran on
    lastArg,        \* the value handed to __set__ (Unset for the others)
    ret,            \* what the operation returned or raised
    calls,          \* the Redis commands the operation issued, in order
    preLocal,       \* the holder's mangled attribute before the operation
    preRemote       \* what Redis held under the holder's key before it

vars == <<autocommit, alwaysfetch, objKey, objAutocommit, objAlwaysfetch,
          local, redis, lastOp, lastObj, lastArg, ret, calls, preLocal, preRemote>>

config == <<autocommit, alwaysfetch, objKey, objAutocommit, objAlwaysfetch>>

\* ------------------------------------------------------------- the codec
serialize(v) == <<"pickle", v>>

deserialize(b) == b[2]

\* ------------------------------------------------------------------ keys
\* Mutant: the holder's key is left out of the Redis key.
keyIgnoresOwner(obj) == Name

key(obj) ==
    IF objKey[obj] # KeyNone
    THEN objKey[obj] \o ":" \o Name
    ELSE Name

AllKeys == {Name} \cup {k \o ":" \o Name : k \in OwnerKeys \ {KeyNone}}

\* ------------------------------------------------------- policy fallback
getattr(flag, default) == IF flag = "absent" THEN default ELSE flag

\* Mutant: the holder's alwaysfetch flag is never consulted.
AlwaysfetchBindingOnly(obj) == alwaysfetch = "true"

AlwaysfetchPolicy(obj) ==
    \/ alwaysfetch = "true"
    \/ (alwaysfetch = "unset" /\ getattr(objAlwaysfetch[obj], "false") = "true")

\* Mutant: the default of getattr(obj, 'autocommit', ...) is False.
AutocommitDefaultFalse(obj) ==
    \/ autocommit = "true"
    \/ (autocommit = "unset" /\ getattr(objAutocommit[obj], "false") = "true")

\* Mutant: every write access commits.
AutocommitAlways(obj) == TRUE

\* Mutant: the holder's flag is consulted before the binding's.
AutocommitHolderFirst(obj) ==
    IF objAutocommit[obj] # "absent"
    THEN objAutocommit[obj] = "true"
    ELSE autocommit # "false"

AutocommitPolicy(obj) ==
    \/ autocommit = "true"
    \/ (autocommit = "unset" /\ getattr(objAutocommit[obj], "true") = "true")

\* ------------------------------------------------------------ local cache
\* Property.value: the mangled attribute, materialised as null when missing.
value(loc, obj) == IF loc[obj] = Unset THEN Null ELSE loc[obj]

\* The holder's attributes after Property.value ran.
touched(loc, obj) == IF loc[obj] = Unset THEN [loc EXCEPT ![obj] = Null] ELSE loc

\* Mutant: the value is kept on the shared Property, not on the holder.
setShared(loc, obj, v) == [o \in Owners |-> v]

\* Property.set
set(loc, obj, v) == [loc EXCEPT ![obj] = v]

\* --------------------------------------------------------- what is returned
NoKey == ""

RetNone == [kind |-> "none", val |-> Unset, ok |-> FALSE, key |-> NoKey]
RetValue(v) == [kind |-> "value", val |-> v, ok |-> FALSE, key |-> NoKey]
RetBool(b) == [kind |-> "bool", val |-> Unset, ok |-> b, key |-> NoKey]
RetKey(k) == [kind |-> "key", val |-> Unset, ok |-> FALSE, key |-> k]
RedisKeyError(k) == [kind |-> "RedisKeyError", val |-> Unset, ok |-> FALSE, key |-> k]
StoreError == [kind |-> "StoreError", val |-> Unset, ok |-> FALSE, key |-> NoKey]

Call(op, k, data, out) == [op |-> op, key |-> k, data |-> data, res |-> out]

\* ----------------------------------------------------- the Redis client
\* redis.get either answers or raises; redis.set answers True, answers a
\* falsy result without writing, or raises; redis.delete and redis.exists
\* answer from the database or raise.
GetOutcomes == {"ok", "raise"}
SetOutcomes == {"ok", "false", "raise"}
DeleteOutcomes == {"ok", "raise"}
ExistsOutcomes == {"ok", "raise"}

redisSet(db, k, b, out) == IF out = "ok" THEN [db EXCEPT ![k] = b] ELSE db

redisDelete(db, k) == [db EXCEPT ![k] = Absent]

redisExists(db, k) == db[k] # Absent

\* -------------------------------------------------------------- Property
\* Mutant: a stored None is taken for a missing key.
fetchedNoneAsNull(response) ==
    IF response # Absent /\ deserialize(response) # PyNone
    THEN deserialize(response)
    ELSE Null

\* fetch: the value a response of redis.get turns into.
fetched(response) == IF response # Absent THEN deserialize(response) ELSE Null

\* Mutant: a missing key leaves the cached value in place.
afterFetchKeepsOnMissing(loc, obj, v) == IF v = Null THEN loc ELSE set(loc, obj, v)

\* Mutant: fetch fills an empty cache only.
afterFetchKeepsPopulated(loc, obj, v) ==
    IF loc[obj] \in {Unset, Null} THEN set(loc, obj, v) ELSE loc

\* fetch: the holder's attributes after the fetched value is stored.
afterFetch(loc, obj, v) == set(loc, obj, v)

\* Mutant: the alwaysfetch policy is ignored.
mustFetchNullOnly(loc, obj) == value(loc, obj) = Null

\* __get__: whether the read goes to Redis.
mustFetch(loc, obj) == value(loc, obj) = Null \/ AlwaysfetchPolicy(obj)

\* Mutant: any falsy cached value is skipped ("if not value").
mustWriteTruthy(loc, obj) == value(loc, obj) \notin {Null, PyNone}

\* commit: whether there is something to write.
mustWrite(loc, obj) == value(loc, obj) # Null

\* Mutant: the cache is cleared whatever redis.delete answered.
afterDeleteAlways(loc, obj, ok) == set(loc, obj, PyNone)

\* Mutant: a successful delete leaves the null sentinel.
afterDeleteNull(loc, obj, ok) == IF ok THEN set(loc, obj, Null) ELSE loc

\* Mutant: a successful delete leaves the cached value in place.
afterDeleteKeeps(loc, obj, ok) == loc

\* delete: the holder's attributes after redis.delete answered ok.
afterDelete(loc, obj, ok) == IF ok THEN set(loc, obj, PyNone) ELSE loc

\* Mutant: invalidate stores None where the sentinel belongs.
afterInvalidateNone(loc, obj) == set(loc, obj, PyNone)

\* invalidate: the holder's attributes afterwards.
afterInvalidate(loc, obj) == set(loc, obj, Null)

\* Mutant: exists reads the cache through Property.value first.
afterExistsTouches(loc, obj) == touched(loc, obj)

\* exists: the holder's attributes afterwards (it never calls Property.set).
afterExists(loc, obj) == loc

\* Mutant: a raising redis.get is swallowed and taken for a missing key.
afterFailedGetNull(loc, obj) == set(loc, obj, Null)

\* fetch: the holder's attributes when redis.get raised (line 120 is not reached).
afterFailedGet(loc, obj) == loc

\* Mutant: __set__ hands commit's answer to its caller.
setResultOfCommit(out) == IF out = "raise" THEN StoreError ELSE RetBool(out = "ok")

\* __set__: what the caller gets once commit was called (its answer is dropped).
setResult(out) == IF out = "raise" THEN StoreError ELSE RetNone

Init ==
    /\ autocommit \in Flags
    /\ alwaysfetch \in Flags
    /\ objKey \in [Owners -> OwnerKeys]
    /\ objAutocommit = [o \in Owners |-> "absent"]
    /\ objAlwaysfetch = [o \in Owners |-> "absent"]
    /\ local = [o \in Owners |-> Unset]
    /\ redis = [k \in AllKeys |-> Absent]
    /\ lastOp = "init"
    /\ lastObj = "A"
    /\ lastArg = Unset
    /\ ret = RetNone
    /\ calls = <<>>
    /\ preLocal = Unset
    /\ preRemote = Absent

\* Property.__get__(obj)
Get(obj) ==
    \E out \in GetOutcomes :
        LET k == key(obj)
            loc1 == touched(local, obj)
            v == fetched(redis[k])
        IN  /\ lastOp' = "get"
            /\ lastObj' = obj
            /\ preLocal' = local[obj]
            /\ preRemote' = redis[key(obj)]
            /\ lastArg' = Unset
            /\ IF mustFetch(local, obj)
               THEN /\ calls' = <<Call("get", k, Absent, out)>>
                    /\ IF out = "raise"
                       THEN local' = afterFailedGet(loc1, obj) /\ ret' = StoreError
                       ELSE /\ local' = afterFetch(loc1, obj, v)
                            /\ ret' = IF v = Null THEN RedisKeyError(k) ELSE RetValue(v)
               ELSE /\ out = "ok"
                    /\ calls' = <<>>
                    /\ local' = loc1
                    /\ ret' = RetValue(value(local, obj))
            /\ UNCHANGED <<config, redis>>

\* Property.__set__(obj, v)
Set(obj, v) ==
    \E out \in SetOutcomes :
        LET k == key(obj)
            loc1 == set(local, obj, v)
        IN  /\ lastOp' = "set"
            /\ lastObj' = obj
            /\ preLocal' = local[obj]
            /\ preRemote' = redis[key(obj)]
            /\ lastArg' = v
            /\ local' = loc1
            /\ IF AutocommitPolicy(obj) /\ mustWrite(loc1, obj)
               THEN /\ calls' = <<Call("set", k, serialize(v), out)>>
                    /\ redis' = redisSet(redis, k, serialize(v), out)
                    /\ ret' = setResult(out)
               ELSE /\ out = "ok"
                    /\ calls' = <<>>
                    /\ redis' = redis
                    /\ ret' = RetNone
            /\ UNCHANGED config

\* Property.fetch(obj)
Fetch(obj) ==
    \E out \in GetOutcomes :
        LET k == key(obj)
            v == fetched(redis[k])
        IN  /\ lastOp' = "fetch"
            /\ lastObj' = obj
            /\ preLocal' = local[obj]
            /\ preRemote' = redis[key(obj)]
            /\ lastArg' = Unset
            /\ calls' = <<Call("get", k, Absent, out)>>
            /\ IF out = "raise"
               THEN local' = afterFailedGet(local, obj) /\ ret' = StoreError
               ELSE local' = afterFetch(local, obj, v) /\ ret' = RetValue(v)
            /\ UNCHANGED <<config, redis>>

\* Property.commit(obj)
Commit(obj) ==
    \E out \in SetOutcomes :
        LET k == key(obj)
            loc1 == touched(local, obj)
            b == serialize(value(local, obj))
        IN  /\ lastOp' = "commit"
            /\ lastObj' = obj
            /\ preLocal' = local[obj]
            /\ preRemote' = redis[key(obj)]
            /\ lastArg' = Unset
            /\ local' = loc1
            /\ IF mustWrite(local, obj)
               THEN /\ calls' = <<Call("set", k, b, out)>>
                    /\ redis' = redisSet(redis, k, b, out)
                    /\ ret' = IF out = "raise" THEN StoreError ELSE RetBool(out = "ok")
               ELSE /\ out = "ok"
                    /\ calls' = <<>>
                    /\ redis' = redis
                    /\ ret' = RetBool(TRUE)
            /\ UNCHANGED config

\* Property.delete(obj)
Delete(obj) ==
    \E out \in DeleteOutcomes :
        LET k == key(obj)
            ok == redisExists(redis, k)
        IN  /\ lastOp' = "delete"
            /\ lastObj' = obj
            /\ preLocal' = local[obj]
            /\ preRemote' = redis[key(obj)]
            /\ lastArg' = Unset
            /\ calls' = <<Call("delete", k, Absent, out)>>
            /\ IF out = "raise"
               THEN /\ redis' = redis
                    /\ local' = local
                    /\ ret' = StoreError
               ELSE /\ redis' = redisDelete(redis, k)
                    /\ local' = afterDelete(local, obj, ok)
                    /\ ret' = RetBool(ok)
            /\ UNCHANGED config

\* Property.exists(obj)
Exists(obj) ==
    \E out \in ExistsOutcomes :
        LET k == key(obj)
        IN  /\ lastOp' = "exists"
            /\ lastObj' = obj
            /\ preLocal' = local[obj]
            /\ preRemote' = redis[key(obj)]
            /\ lastArg' = Unset
            /\ calls' = <<Call("exists", k, Absent, out)>>
            /\ ret' = IF out = "raise" THEN StoreError ELSE RetBool(redisExists(redis, k))
            /\ local' = afterExists(local, obj)
            /\ UNCHANGED <<config, redis>>

\* Property.invalidate(obj)
Invalidate(obj) ==
    /\ lastOp' = "invalidate"
    /\ lastObj' = obj
    /\ preLocal' = local[obj]
    /\ preRemote' = redis[key(obj)]
    /\ lastArg' = Unset
    /\ calls' = <<>>
    /\ local' = afterInvalidate(local, obj)
    /\ ret' = RetNone
    /\ UNCHANGED <<config, redis>>

\* Property.key(obj)
Key(obj) ==
    /\ lastOp' = "key"
    /\ lastObj' = obj
    /\ preLocal' = local[obj]
    /\ preRemote' = redis[key(obj)]
    /\ lastArg' = Unset
    /\ calls' = <<>>
    /\ ret' = RetKey(key(obj))
    /\ UNCHANGED <<config, local, redis>>

\* Property.value(obj)
Value(obj) ==
    /\ lastOp' = "value"
    /\ lastObj' = obj
    /\ preLocal' = local[obj]
    /\ preRemote' = redis[key(obj)]
    /\ lastArg' = Unset
    /\ calls' = <<>>
    /\ local' = touched(local, obj)
    /\ ret' = RetValue(value(local, obj))
    /\ UNCHANGED <<config, redis>>

Next ==
    \/ \E obj \in Owners : Get(obj)
    \/ \E obj \in Owners, v \in WriteValues : Set(obj, v)
    \/ \E obj \in Owners : Fetch(obj)
    \/ \E obj \in Owners : Commit(obj)
    \/ \E obj \in Owners : Delete(obj)
    \/ \E obj \in Owners : Exists(obj)
    \/ \E obj \in Owners : Invalidate(obj)
    \/ \E obj \in Owners : Key(obj)
    \/ \E obj \in Owners : Value(obj)

Spec == Init /\ [][Next]_vars

\* Holders of one class that carries the policy flags as class attributes,
\* all stored under one key: every combination of binding and holder flag.
InitPolicy ==
    /\ autocommit \in Flags
    /\ alwaysfetch \in Flags
    /\ objKey = [o \in Owners |-> "user:42"]
    /\ \E f \in OwnerFlags : objAutocommit = [o \in Owners |-> f]
    /\ \E f \in OwnerFlags : objAlwaysfetch = [o \in Owners |-> f]
    /\ local = [o \in Owners |-> Unset]
    /\ redis = [k \in AllKeys |-> Absent]
    /\ lastOp = "init"
    /\ lastObj = "A"
    /\ lastArg = Unset
    /\ ret = RetNone
    /\ calls = <<>>
    /\ preLocal = Unset
    /\ preRemote = Absent

SpecPolicy == InitPolicy /\ [][Next]_vars

\* One holder per Redis key, autocommit resolving true, and a redis.set that
\* always succeeds: holder A runs alone when both holders have one key.
InitSingleWriter ==
    /\ Init
    /\ \A obj \in Owners : AutocommitPolicy(obj)

SetsSucceed == \A i \in 1..Len(calls) : calls[i].op = "set" => calls[i].res = "ok"

SoleHolder == lastObj = "A" \/ key("A") # key("B")

SingleWriter == SetsSucceed /\ SoleHolder

NextSingleWriter ==
    \/ \E obj \in Owners : Get(obj) /\ SingleWriter'
    \/ \E obj \in Owners, v \in WriteValues : Set(obj, v) /\ SingleWriter'
    \/ \E obj \in Owners : Fetch(obj) /\ SingleWriter'
    \/ \E obj \in Owners : Commit(obj) /\ SingleWriter'
    \/ \E obj \in Owners : Delete(obj) /\ SingleWriter'
    \/ \E obj \in Owners : Exists(obj) /\ SingleWriter'
    \/ \E obj \in Owners : Invalidate(obj) /\ SingleWriter'
    \/ \E obj \in Owners : Key(obj) /\ SingleWriter'
    \/ \E obj \in Owners : Value(obj) /\ SingleWriter'

SpecSingleWriter == InitSingleWriter /\ [][NextSingleWriter]_vars

\* ======================================================================
\* The statements checked against the model.  They are written from the
\* documentation's side: the policy, the key and the codec are restated
\* here and do not use the definitions that model Property.
\* ======================================================================

\* binding flag, else the holder's flag, else the built-in default
Fallback(flag, objFlag, default) ==
    IF flag # "unset" THEN flag = "true"
    ELSE IF objFlag # "absent" THEN objFlag = "true"
    ELSE default

ResolvedAutocommit(o) == Fallback(autocommit, objAutocommit[o], TRUE)

ResolvedAlwaysfetch(o) == Fallback(alwaysfetch, objAlwaysfetch[o], FALSE)

RemoteKey(o) == IF objKey[o] = KeyNone THEN "score" ELSE objKey[o] \o ":score"

Pickled(v) == <<"pickle", v>>

\* what a fetch makes of the database's content under a key
RemoteValue(db, k) == IF db[k] = Absent THEN Null ELSE db[k][2]

Empty(v) == v \in {Unset, Null}

\* C1: a read access goes to Redis exactly when the holder's cached value
\* is null (or was never set) or alwaysfetch resolves true, and then with
\* one get of the holder's key; otherwise it returns the cached value and
\* issues nothing.  When the get answers that the key is missing the read
\* raises RedisKeyError carrying key(obj).  A read never writes to Redis.
C1_ReadFetchesIffNullOrAlwaysfetch ==
    [][\A o \in Owners :
        (lastOp' = "get" /\ lastObj' = o) =>
            LET need == Empty(local[o]) \/ ResolvedAlwaysfetch(o)
                k == RemoteKey(o)
            IN  /\ need => /\ Len(calls') = 1
                           /\ calls'[1].op = "get"
                           /\ calls'[1].key = k
                /\ ~need => /\ calls' = <<>>
                            /\ ret' = RetValue(local[o])
                            /\ local' = local
                /\ (need /\ calls'[1].res = "ok" /\ redis[k] = Absent) =>
                            /\ ret' = RedisKeyError(k)
                            /\ local'[o] = Null
                /\ redis' = redis
      ]_vars

\* C1 witness: the first read of a never-touched holder without alwaysfetch
\* went to Redis, found nothing and raised RedisKeyError("user:42:score").
C1_Witness ==
    /\ lastOp = "get"
    /\ preLocal = Unset
    /\ ~ResolvedAlwaysfetch(lastObj)
    /\ Len(calls) = 1
    /\ calls[1].op = "get"
    /\ ret = RedisKeyError("user:42:score")

\* C2: a write access of v leaves v in the holder's cache whatever the
\* policy and whatever Redis answers; it issues one set of the serialized v
\* under the holder's key when autocommit resolves true, and nothing at all
\* (Redis unchanged) when it resolves false.
C2_WriteStoresThenCommitsIffAutocommit ==
    [][\A o \in Owners :
        (lastOp' = "set" /\ lastObj' = o) =>
            /\ local' = [local EXCEPT ![o] = lastArg']
            /\ IF ResolvedAutocommit(o)
               THEN /\ Len(calls') = 1
                    /\ calls'[1].op = "set"
                    /\ calls'[1].key = RemoteKey(o)
                    /\ calls'[1].data = Pickled(lastArg')
               ELSE /\ calls' = <<>>
                    /\ redis' = redis
      ]_vars

\* C2 witness: a write with autocommit resolved false that left the value in
\* the cache while Redis holds something else under the key.
C2_Witness ==
    /\ lastOp = "set"
    /\ ~ResolvedAutocommit(lastObj)
    /\ lastArg \in WriteValues
    /\ local[lastObj] = lastArg
    /\ calls = <<>>
    /\ redis[RemoteKey(lastObj)] # Pickled(lastArg)
    /\ redis[RemoteKey(lastObj)] = preRemote

\* C3: after a write access of v through holder a with autocommit resolved
\* true whose set succeeded, a fetch through another holder b with the same
\* key (whose get answers) returns v and leaves v in b's cache.
C3_WriteThenFetchUnderAutocommit ==
    [][\A a \in Owners, b \in Owners :
        ( /\ a # b
          /\ RemoteKey(a) = RemoteKey(b)
          /\ lastOp = "set" /\ lastObj = a
          /\ ResolvedAutocommit(a)
          /\ Len(calls) = 1 /\ calls[1].res = "ok"
          /\ lastOp' = "fetch" /\ lastObj' = b
          /\ calls'[1].res = "ok" ) =>
            /\ ret' = RetValue(lastArg)
            /\ local'[b] = lastArg
      ]_vars

\* C3 witness: B fetched 1 into a cache that held something else, while A,
\* under the same key and with autocommit resolved true, holds the 1 it wrote.
C3_Witness ==
    /\ lastOp = "fetch"
    /\ lastObj = "B"
    /\ RemoteKey("A") = RemoteKey("B")
    /\ ResolvedAutocommit("A")
    /\ local["A"] = 1
    /\ preLocal # 1
    /\ preRemote = Pickled(1)
    /\ ret = RetValue(1)
    /\ local["B"] = 1

\* a fetch through b whose get answered follows a write through a, another
\* holder with the same key, made with autocommit resolved false
FetchAfterUncommittedWrite(a, b) ==
    /\ a # b
    /\ RemoteKey(a) = RemoteKey(b)
    /\ lastOp = "set" /\ lastObj = a
    /\ ~ResolvedAutocommit(a)
    /\ lastOp' = "fetch" /\ lastObj' = b
    /\ calls'[1].res = "ok"

C5_DeleteThenReadRaises ==
    [][\A o \in Owners :
        /\ ( /\ lastOp' = "delete" /\ lastObj' = o
             /\ calls'[1].res = "ok"
             /\ redis[RemoteKey(o)] # Absent ) =>
                /\ ret' = RetBool(TRUE)
                /\ redis'[RemoteKey(o)] = Absent
        /\ ( /\ lastOp = "delete" /\ lastObj = o
             /\ ret = RetBool(TRUE)
             /\ lastOp' = "get" /\ lastObj' = o
             /\ ret' # StoreError ) =>
                ret' = RedisKeyError(RemoteKey(o))
      ]_vars

\* C6: a delete that Redis does not report as successful (the key is not
\* there, or the command raised) leaves every holder's cached value exactly
\* as it was, an attribute that was never set included; when the key is not
\* there the delete returns that falsy answer.
C6_FailedDeleteKeepsCache ==
    [][\A o \in Owners :
        /\ (lastOp' = "delete" /\ lastObj' = o /\ ret' # RetBool(TRUE)) =>
                local' = local
        /\ ( /\ lastOp' = "delete" /\ lastObj' = o
             /\ calls'[1].res = "ok"
             /\ redis[RemoteKey(o)] = Absent ) =>
                /\ ret' = RetBool(FALSE)
                /\ local' = local
                /\ redis' = redis
      ]_vars

\* C6 witness: a delete answered False while the holder's cache held 1, and
\* the cache still holds 1.
C6_Witness ==
    /\ lastOp = "delete"
    /\ Len(calls) = 1 /\ calls[1].res = "ok"
    /\ ret = RetBool(FALSE)
    /\ preLocal = 1
    /\ local[lastObj] = 1

\* C7: with alwaysfetch resolved true every read access issues exactly one
\* get of the holder's key, whatever the cache holds, and (when the get
\* answers) returns the value Redis holds at that moment, or raises
\* RedisKeyError when the key is missing; the cache follows.
C7_AlwaysfetchReadsRemote ==
    [][\A o \in Owners :
        (lastOp' = "get" /\ lastObj' = o /\ ResolvedAlwaysfetch(o)) =>
            LET k == RemoteKey(o)
                x == RemoteValue(redis, k)
            IN  /\ Len(calls') = 1
                /\ calls'[1].op = "get"
                /\ calls'[1].key = k
                /\ calls'[1].res = "ok" =>
                        /\ ret' = IF x = Null THEN RedisKeyError(k) ELSE RetValue(x)
                        /\ local'[o] = x
      ]_vars

\* C7 witness: a read with alwaysfetch resolved true on a holder whose cache
\* was populated issued a get and returned a value other than the cached one.
C7_Witness ==
    /\ lastOp = "get"
    /\ ResolvedAlwaysfetch(lastObj)
    /\ preLocal \in WriteValues
    /\ Len(calls) = 1 /\ calls[1].op = "get" /\ calls[1].res = "ok"
    /\ ret.kind = "value"
    /\ ret.val # preLocal
    /\ Pickled(ret.val) = redis[RemoteKey(lastObj)]

\* C8: commit on a holder whose cache is null (or was never set) issues
\* nothing, leaves Redis unchanged and returns True; on any other cached
\* value it issues exactly one set of the serialized value under the
\* holder's key and returns what the set answered.
C8_CommitSkipsNull ==
    [][\A o \in Owners :
        (lastOp' = "commit" /\ lastObj' = o) =>
            IF Empty(local[o])
            THEN /\ calls' = <<>>
                 /\ redis' = redis
                 /\ ret' = RetBool(TRUE)
            ELSE /\ Len(calls') = 1
                 /\ calls'[1].op = "set"
                 /\ calls'[1].key = RemoteKey(o)
                 /\ calls'[1].data = Pickled(local[o])
                 /\ calls'[1].res # "raise" => ret' = RetBool(calls'[1].res = "ok")
      ]_vars

\* C8 witness: commit on a never-touched holder returned True without a
\* command, and the key is still missing.
C8_Witness ==
    /\ lastOp = "commit"
    /\ preLocal = Unset
    /\ calls = <<>>
    /\ ret = RetBool(TRUE)
    /\ preRemote = Absent
    /\ redis[RemoteKey(lastObj)] = Absent

C11_InvalidateForcesFetch ==
    [][\A o \in Owners :
        /\ (lastOp' = "invalidate" /\ lastObj' = o) =>
                /\ local' = [local EXCEPT ![o] = Null]
                /\ redis' = redis
                /\ calls' = <<>>
        /\ ( /\ lastOp = "invalidate" /\ lastObj = o
             /\ lastOp' = "get" /\ lastObj' = o ) =>
                LET k == RemoteKey(o)
                    x == RemoteValue(redis, k)
                IN  /\ Len(calls') = 1
                    /\ calls'[1].op = "get"
                    /\ calls'[1].key = k
                    /\ calls'[1].res = "ok" =>
                            /\ ret' = IF x = Null THEN RedisKeyError(k) ELSE RetValue(x)
                            /\ local'[o] = x
      ]_vars

\* C11 witness: with alwaysfetch resolved false, invalidate replaced a cached
\* 1 by null while Redis still holds the 1.
C11_Witness ==
    /\ lastOp = "invalidate"
    /\ ~ResolvedAlwaysfetch(lastObj)
    /\ preLocal = 1
    /\ local[lastObj] = Null
    /\ calls = <<>>
    /\ preRemote = Pickled(1)
    /\ redis[RemoteKey(lastObj)] = Pickled(1)

\* C12: a delete that Redis reports as successful leaves None in the
\* holder's cache, which is not the null sentinel: the read access that
\* follows with alwaysfetch resolved false issues no get and returns None.
C12_DeleteCachesNone ==
    [][\A o \in Owners :
        /\ (lastOp' = "delete" /\ lastObj' = o /\ ret' = RetBool(TRUE)) =>
                /\ local' = [local EXCEPT ![o] = PyNone]
                /\ local'[o] # Null
        /\ ( /\ lastOp = "delete" /\ lastObj = o
             /\ ret = RetBool(TRUE)
             /\ ~ResolvedAlwaysfetch(o)
             /\ lastOp' = "get" /\ lastObj' = o ) =>
                /\ calls' = <<>>
                /\ ret' = RetValue(PyNone)
                /\ local' = local
      ]_vars

\* C12 witness: a read with alwaysfetch resolved false found None cached
\* over a missing key, issued nothing and returned None.
C12_Witness ==
    /\ lastOp = "get"
    /\ ~ResolvedAlwaysfetch(lastObj)
    /\ preLocal = PyNone
    /\ preRemote = Absent
    /\ calls = <<>>
    /\ ret = RetValue(PyNone)

\* C13: key(obj) is obj.key, a colon and the attribute name when obj.key is
\* not None ("user:42" and "score" give "user:42:score") and the attribute
\* name alone when it is None; the call issues no command, changes neither
\* cache nor Redis, and a call repeated right after returns the same key.
C13_KeyComposition ==
    [][\A o \in Owners :
        (lastOp' = "key" /\ lastObj' = o) =>
            /\ objKey[o] = "user:42" => ret' = RetKey("user:42:score")
            /\ objKey[o] = KeyNone => ret' = RetKey("score")
            /\ ret'.kind = "key"
            /\ calls' = <<>>
            /\ local' = local
            /\ redis' = redis
            /\ objKey' = objKey
            /\ (lastOp = "key" /\ lastObj = o) => ret' = ret
      ]_vars

\* C13 witness: key(obj) returned "user:42:score" for a holder whose key is
\* "user:42" while the other holder's key is None.
C13_Witness ==
    /\ lastOp = "key"
    /\ objKey[lastObj] = "user:42"
    /\ \E p \in Owners : objKey[p] = KeyNone
    /\ ret = RetKey("user:42:score")

\* C14: exists issues one exists command for the holder's key and (when it
\* answers) returns whether Redis holds the key; every holder's cache, a
\* never-set attribute included, and Redis are as before.
C14_ExistsIsReadOnly ==
    [][\A o \in Owners :
        (lastOp' = "exists" /\ lastObj' = o) =>
            /\ Len(calls') = 1
            /\ calls'[1].op = "exists"
            /\ calls'[1].key = RemoteKey(o)
            /\ calls'[1].res = "ok" => ret' = RetBool(redis[RemoteKey(o)] # Absent)
            /\ local' = local
            /\ redis' = redis
      ]_vars

\* C14 witness: exists answered True on a holder whose attribute was never
\* set, and the attribute is still not set.
C14_Witness ==
    /\ lastOp = "exists"
    /\ ret = RetBool(TRUE)
    /\ preLocal = Unset
    /\ local[lastObj] = Unset
    /\ redis[RemoteKey(lastObj)] # Absent

\* C15: whatever operation runs on a holder, the cached value of every other
\* holder is as before, also when both holders have the same Redis key; the
\* other holder's cache changes only in its own operations.
C15_CacheIsPerHolder ==
    [][\A o \in Owners, p \in Owners :
        (lastOp' # "init" /\ lastObj' = o /\ p # o) => local'[p] = local[p]
      ]_vars

\* C15 witness: A wrote and committed 1 under the key B shares, and B still
\* holds the None it had cached.
C15_Witness ==
    /\ lastOp = "set"
    /\ lastObj = "A"
    /\ RemoteKey("A") = RemoteKey("B")
    /\ local["A"] = 1
    /\ redis[RemoteKey("B")] = Pickled(1)
    /\ local["B"] = PyNone

\* the step is a fetch, or a read access that went to Redis, on holder o
\* and its redis.get raised
GetRaised(o) ==
    /\ lastOp' \in {"fetch", "get"}
    /\ lastObj' = o
    /\ calls' # <<>>
    /\ calls'[1].res = "raise"

\* C16 as stated: when redis.get raises during a fetch or a fetching read
\* access the error reaches the caller, exactly one get was attempted and
\* the holder's attributes are exactly as before the call.
C16_StoreErrorLeavesCacheExactly ==
    [][\A o \in Owners :
        GetRaised(o) =>
            /\ ret' = StoreError
            /\ Len(calls') = 1
            /\ calls'[1].op = "get"
            /\ local' = local
      ]_vars

\* C16 amended: the error reaches the caller after exactly one get and
\* nothing is retried; a fetch leaves the holder's attributes exactly as
\* before, and a read access leaves them as before except that an attribute
\* that was never set now holds null (Property.value ran before the get).
\* Redis and the other holders are untouched.
C16_StoreErrorPropagates ==
    [][\A o \in Owners :
        GetRaised(o) =>
            /\ ret' = StoreError
            /\ Len(calls') = 1
            /\ calls'[1].op = "get"
            /\ calls'[1].key = RemoteKey(o)
            /\ redis' = redis
            /\ IF lastOp' = "get" /\ local[o] = Unset
               THEN local' = [local EXCEPT ![o] = Null]
               ELSE local' = local
      ]_vars

\* C16 witness: a fetch on a holder that had 1 cached raised the store's
\* error after one get, and the holder still has 1 cached.
C16_Witness ==
    /\ lastOp = "fetch"
    /\ ret = StoreError
    /\ Len(calls) = 1 /\ calls[1].op = "get" /\ calls[1].res = "raise"
    /\ preLocal = 1
    /\ local[lastObj] = 1

\* C17: when every key is used through one holder only, autocommit resolves
\* true and every redis.set succeeds, then after any sequence of operations
\* a holder's cache is null (or never set), or equal to the value Redis
\* holds under its key, or None while the key is missing.
C17_SingleWriterCoherent ==
    \A o \in Owners :
        LET k == RemoteKey(o)
        IN  \/ Empty(local[o])
            \/ (redis[k] # Absent /\ Pickled(local[o]) = redis[k])
            \/ (local[o] = PyNone /\ redis[k] = Absent)

\* C17 witness: a successful delete removed the key and replaced a cached 1
\* by None.
C17_Witness ==
    /\ lastOp = "delete"
    /\ ret = RetBool(TRUE)
    /\ preLocal = 1
    /\ preRemote = Pickled(1)
    /\ local[lastObj] = PyNone
    /\ redis[RemoteKey(lastObj)] = Absent

\* C18: a write access of v with autocommit resolved true whose redis.set
\* answers falsy or raises leaves v in the holder's cache and Redis as it
\* was; a falsy answer is not reported (the write returns nothing, as a
\* successful one does), a raised error reaches the caller.
C18_WriteIsNotAtomic ==
    [][\A o \in Owners :
        ( /\ lastOp' = "set" /\ lastObj' = o
          /\ ResolvedAutocommit(o)
          /\ calls' # <<>>
          /\ calls'[1].res # "ok" ) =>
            /\ local'[o] = lastArg'
            /\ redis' = redis
            /\ calls'[1].res = "false" => ret' = RetNone
            /\ calls'[1].res = "raise" => ret' = StoreError
      ]_vars

\* C18 witness: a write of 1 whose set answered falsy returned nothing; the
\* cache holds 1 and Redis still holds what it held.
C18_Witness ==
    /\ lastOp = "set"
    /\ lastArg = 1
    /\ Len(calls) = 1 /\ calls[1].op = "set" /\ calls[1].res = "false"
    /\ ret = RetNone
    /\ local[lastObj] = 1
    /\ redis[RemoteKey(lastObj)] = preRemote
    /\ preRemote # Pickled(1)

\* a fetch, or a read access with alwaysfetch resolved true, on holder o
\* whose get answered follows a write access on o made with autocommit
\* resolved false
RefreshAfterUncommittedWrite(o) ==
    /\ lastOp = "set" /\ lastObj = o
    /\ ~ResolvedAutocommit(o)
    /\ lastOp' = "fetch" \/ (lastOp' = "get" /\ ResolvedAlwaysfetch(o))
    /\ lastObj' = o
    /\ calls' # <<>>
    /\ calls'[1].res = "ok"

\* C19 as stated: the refresh replaces the uncommitted v by the remote
\* value, so the cache, which is what a later commit writes, is never v.
C19_UncommittedNeverSurvives ==
    [][\A o \in Owners :
        RefreshAfterUncommittedWrite(o) =>
            /\ local'[o] = RemoteValue(redis, RemoteKey(o))
            /\ local'[o] # lastArg
      ]_vars

\* C19 amended: the refresh replaces the uncommitted v by the remote value,
\* or by null when the key is missing (a read access then raises
\* RedisKeyError); the cache holds v afterwards only if Redis already held v
\* when it was written.  A commit that follows a refresh sends the value the
\* refresh brought, leaving Redis as it is, or nothing when it brought null.
C19_UncommittedLostOnFetch ==
    [][\A o \in Owners :
        LET k == RemoteKey(o)
        IN  /\ RefreshAfterUncommittedWrite(o) =>
                /\ local'[o] = RemoteValue(redis, k)
                /\ redis' = redis
                /\ preRemote # Pickled(lastArg) => local'[o] # lastArg
                /\ (lastOp' = "get" /\ redis[k] = Absent) => ret' = RedisKeyError(k)
            /\ ( /\ lastOp \in {"fetch", "get"} /\ lastObj = o
                 /\ calls # <<>> /\ calls[1].res = "ok"
                 /\ lastOp' = "commit" /\ lastObj' = o ) =>
                    IF redis[k] = Absent
                    THEN calls' = <<>> /\ redis' = redis
                    ELSE /\ Len(calls') = 1
                         /\ calls'[1].op = "set"
                         /\ calls'[1].data = redis[k]
                         /\ redis' = redis
      ]_vars

\* C19 witness: with autocommit resolved false a fetch replaced a cached 1
\* that was never committed by null, Redis holding nothing under the key.
C19_Witness ==
    /\ lastOp = "fetch"
    /\ ~ResolvedAutocommit(lastObj)
    /\ Len(calls) = 1 /\ calls[1].res = "ok"
    /\ preLocal = 1
    /\ preRemote = Absent
    /\ local[lastObj] = Null
    /\ \A k \in AllKeys : redis[k] = Absent

\* C20: after a successful delete the cache holds None, which is not null,
\* so a commit that follows issues one set of the serialized None under the
\* holder's key; when that set succeeds the key is back, and the exists
\* that follows answers True.
C20_CommitAfterDeleteRecreatesKey ==
    [][\A o \in Owners :
        LET k == RemoteKey(o)
        IN  /\ ( /\ lastOp = "delete" /\ lastObj = o
                 /\ ret = RetBool(TRUE)
                 /\ lastOp' = "commit" /\ lastObj' = o ) =>
                    /\ Len(calls') = 1
                    /\ calls'[1].op = "set"
                    /\ calls'[1].key = k
                    /\ calls'[1].data = Pickled(PyNone)
                    /\ calls'[1].res = "ok" =>
                            (redis'[k] = Pickled(PyNone) /\ ret' = RetBool(TRUE))
            /\ ( /\ lastOp = "commit" /\ lastObj = o
                 /\ preLocal = PyNone
                 /\ calls # <<>> /\ calls[1].res = "ok"
                 /\ lastOp' = "exists" /\ lastObj' = o
                 /\ calls'[1].res = "ok" ) =>
                    ret' = RetBool(TRUE)
      ]_vars

\* C20 witness: a commit found None cached over a missing key, sent the
\* serialized None and the key exists again.
C20_Witness ==
    /\ lastOp = "commit"
    /\ preLocal = PyNone
    /\ preRemote = Absent
    /\ Len(calls) = 1 /\ calls[1].op = "set" /\ calls[1].res = "ok"
    /\ calls[1].data = Pickled(PyNone)
    /\ redis[RemoteKey(lastObj)] = Pickled(PyNone)

====
